---- MODULE Spec2Model ----
(***************************************************************************)
(* A model of slack.py: the Transport Client (AsyncApi._make_json_res,     *)
(* _get), the Paginator (AsyncApi._get_all), the Realtime Session          *)
(* Establisher (AsyncApi._make_rtm_api) and the Realtime Session           *)
(* (_RealtimeApi).                                                         *)
(*                                                                         *)
(* Three state machines share this module, each with its own              *)
(* specification:                                                          *)
(*   SpecPage     one run of list_all_channels / _get_all                  *)
(*   SpecRtm      one run of rtm_connect / rtm_start                       *)
(*   SpecSession  one _RealtimeApi with a consumer task and closer tasks   *)
(*   FairSession  SpecSession with the event loop's fairness               *)
(*                                                                         *)
(* Python values: a dict is a TLA+ function (record) whose DOMAIN is its   *)
(* key set, so that `"ok" in json_res` is "ok" \in DOMAIN json_res; a list *)
(* is a sequence; an f-string is the record of the values it formats.      *)
(***************************************************************************)
EXTENDS Naturals, Sequences, FiniteSets

VARIABLES
    \* ---- Paginator (one call of list_all_channels)
    pgPc,        \* "idle" | "loop" | "returned" | "raised"
    pgParams,    \* the params dict of _get_all (mutated in place, line 97)
    pgRv,        \* the local rv of _get_all
    pgServed,    \* the HTTP responses the server gave, in call order
    pgLog,       \* print / request events, in program order
    pgResult,    \* what _get_all returned (None, or a list)
    pgExc,       \* the exception that left _get_all
    \* ---- get_channel_id (the caller of list_all_channels, when there is one)
    chPc,        \* "idle" | "listing" | "returned" | "raised"
    chName,      \* the channel_name argument, as a sequence of characters/words
    chResult,    \* what get_channel_id returned
    chExc,       \* the exception that left get_channel_id
    \* ---- Realtime Session Establisher (one call of rtm_connect / rtm_start)
    rtmPc,       \* "attempt" | "wait" | "upgrade" | "established" | "raised"
    rtmRetry,    \* the retry argument
    rtmMethod,   \* "rtm.connect" | "rtm.start"
    rtmRes,      \* the local res of _make_rtm_api
    rtmServed,   \* the HTTP responses of the handshake calls, in order
    rtmLog,      \* get / sleep / ws_connect events, in program order
    rtmExc,      \* the exception that left _make_rtm_api
    rtmSession,  \* the _RealtimeApi returned
    \* ---- Realtime Session (_RealtimeApi and the tasks that use it)
    selfWs,      \* _RealtimeApi._ws: "ws" or None
    wsClosed,    \* the underlying connection is closed (or closing)
    closeAttempts, \* how many times ws.close() was invoked
    stream,      \* the frames the connection has handed out, in arrival order
    delivered,   \* indices (into stream) of the frames wait_messages yielded
    conPc,       \* consumer: "idle" | "recv" | "yielded" | "gbClose"
    conMode,     \* "none" | "hello" (inside got_hello) | "iter" (async for)
    conEnd,      \* how the last generator ended
    conExc,      \* last exception raised to the consumer
    helloResult, \* last value returned by got_hello
    clPc,        \* closer tasks: "idle" | "await"
    lastClose,   \* what the last close() call by a closer task did
    \* ---- outbound side of the Realtime Session
    sent,        \* the frames transmitted on the connection, in order
    lastSend,    \* how the last send call ended: "sent" or the exception
    \* ---- Transport Client: the one-call public methods of AsyncApi
    apiLog,      \* print / request events, in program order
    apiResult,   \* what the last call returned or raised
    \* ---- escape
    escText,     \* the text argument, a sequence of characters
    escRv        \* what escape returned

chVars  == <<chPc, chName, chResult, chExc>>
pgVars  == <<pgPc, pgParams, pgRv, pgServed, pgLog, pgResult, pgExc, chVars>>
rtmVars == <<rtmPc, rtmRetry, rtmMethod, rtmRes, rtmServed, rtmLog, rtmExc, rtmSession>>
rtVars  == <<selfWs, wsClosed, closeAttempts, stream, delivered,
             conPc, conMode, conEnd, conExc, helloResult,
             clPc, lastClose>>
sndVars == <<sent, lastSend>>
apiVars == <<apiLog, apiResult>>
escVars == <<escText, escRv>>
vars    == <<pgVars, rtmVars, rtVars, sndVars, apiVars, escVars>>
\* What an action of one component leaves alone.
pgFrame  == <<rtmVars, rtVars, sndVars, apiVars, escVars>>
rtmFrame == <<pgVars, rtVars, sndVars, apiVars, escVars>>
rtFrame  == <<pgVars, rtmVars, sndVars, apiVars, escVars>>
sndFrame == <<pgVars, rtmVars, rtVars, apiVars, escVars>>
apiFrame == <<pgVars, rtmVars, rtVars, sndVars, escVars>>
escFrame == <<pgVars, rtmVars, rtVars, sndVars, apiVars>>

\* Python's None.
None == "None"

(***************************************************************************)
(* Bounds of the model.                                                    *)
(***************************************************************************)
\* pages a server serves in one pagination run
MaxPages == 3
\* characters of a text given to escape
MaxText == 3
\* requests the one-call public methods put on the wire
MaxCalls == 2
\* frames a session transmits
MaxSends == 1
\* handshake calls of one rtm_connect / rtm_start
MaxAttempts == 3
\* frames the network delivers on one connection
MaxFrames == 3

\* asyncio.sleep(5), line 172
RetryDelay == 5

Range(s) == {s[i] : i \in 1..Len(s)}

(***************************************************************************)
(* Transport Client                                                        *)
(***************************************************************************)
SLACK_API_URL == "https://slack.com/api"

\* An HTTP response: status, verb, and a body that res.json() can parse or not.
\* The JSON objects the Slack API answers a list call with.
General == [id |-> "C1", name |-> "general"]

Random == [id |-> "C2", name |-> "random"]

\* A second channel that answers to the name "general".
GeneralTwin == [id |-> "C3", name |-> "general"]

\* The channel lists a page may carry.
PageItems == {<<>>, <<General>>, <<Random, GeneralTwin>>}

PageOkBodies ==
    {[ok |-> TRUE, channels |-> items] : items \in PageItems}
    \cup {[ok |-> TRUE, channels |-> items, response_metadata |-> [next_cursor |-> c]] :
            items \in PageItems, c \in {"", "c1", "c2"}}

SoftFailBodies ==
    {[ok |-> FALSE], [ok |-> FALSE, error |-> "invalid_auth"],
     [ok |-> FALSE, error |-> "ratelimited"]}

NoOkBodies == {[error |-> "bad_gateway"]}

Statuses == {200, 399, 400, 500}

HttpResponses(verb, jsons) ==
    {[status |-> s, method |-> verb, parsable |-> TRUE, json |-> j] :
        s \in Statuses, j \in jsons}
    \cup {[status |-> s, method |-> verb, parsable |-> FALSE, text |-> "<html>"] :
        s \in Statuses}

\* res.text(): the raw body.
ResText(res) == IF res.parsable THEN res.json ELSE res.text

\* _error_message: the values the f-string formats.
ErrorMessage(res, method, body, payload) ==
    [status |-> res.status, method |-> method, verb |-> res.method,
     body |-> body, payload |-> payload]

\* Line 67: the response is not a well-formed API answer.
IsTransportFailure(res, json_res) ==
    ~(200 <= res.status /\ res.status < 400) \/ "ok" \notin DOMAIN json_res

\* A faulty _make_json_res: a transport failure is handed back as a soft one.
MakeJsonResLenient(res, method, payload) ==
    IF ~res.parsable \/ IsTransportFailure(res, res.json)
    THEN [kind |-> "return", value |-> [ok |-> FALSE, error |-> "transport"],
          printed |-> <<>>]
    ELSE [kind |-> "return", value |-> res.json, printed |-> <<>>]

\* _make_json_res.  res.json() (line 65) runs first and raises its own
\* exception on a body that is not JSON, before any status check.
MakeJsonRes(res, method, payload) ==
    IF ~res.parsable
    THEN [kind |-> "raise", exc |-> "JSONDecodeError"]
    ELSE LET json_res == res.json
         IN  IF IsTransportFailure(res, json_res)
             THEN [kind |-> "raise", exc |-> "ApiError",
                   message |-> ErrorMessage(res, method, ResText(res), payload)]
             ELSE [kind |-> "return", value |-> json_res,
                   printed |-> IF ~json_res.ok
                               THEN <<ErrorMessage(res, method, json_res, payload)>>
                               ELSE <<>>]

\* _get: the trace (line 81), then the request (line 83).
GetEvents(method, params) ==
    <<[ev |-> "print", text |-> <<"Request", method, params>>],
      [ev |-> "request", verb |-> "GET",
       url |-> SLACK_API_URL \o "/" \o method, params |-> params]>>

(***************************************************************************)
(* Paginator                                                               *)
(***************************************************************************)
\* json_res.get("response_metadata", {}).get("next_cursor"), line 93
NextCursor(json_res) ==
    IF "response_metadata" \in DOMAIN json_res
    THEN IF "next_cursor" \in DOMAIN json_res.response_metadata
         THEN json_res.response_metadata.next_cursor
         ELSE None
    ELSE None

\* A faulty test of the cursor: only None ends the pagination.
TruthyNotNone(v) == v # None

\* Python truthiness of a cursor: None and "" are false.
Truthy(v) == v # None /\ v # ""

\* A faulty assignment: the new dict holds the cursor and nothing else.
SetItemDroppingOthers(d, k, v) == [x \in {k} |-> v]

\* params["cursor"] = next_cursor, line 97
SetItem(d, k, v) == [x \in DOMAIN d \cup {k} |-> IF x = k THEN v ELSE d[x]]

\* A faulty extend: the page's items replace the accumulated ones.
ExtendReplacing(rv, items) == items

\* rv.extend(json_res[field]), line 92
Extend(rv, items) == rv \o items

\* A faulty soft-failure exit: the accumulated items are returned.
ReturnAccumulated == [returned |-> TRUE, none |-> FALSE, value |-> pgRv]

\* What a call has produced so far: nothing, a raised exception, or a value
\* (`return` with no value returns None).
NoResult == [returned |-> FALSE]
ReturnNone == [returned |-> TRUE, none |-> TRUE]
Return(v) == [returned |-> TRUE, none |-> FALSE, value |-> v]
NoExc == [kind |-> "none"]

PgInit ==
    /\ pgPc = "idle"
    /\ pgParams = [types |-> None]
    /\ pgRv = <<>>
    /\ pgServed = <<>>
    /\ pgLog = <<>>
    /\ pgResult = NoResult
    /\ pgExc = NoExc
    /\ chPc = "idle"
    /\ chName = <<>>
    /\ chResult = NoResult
    /\ chExc = "none"

\* The body of list_all_channels: builds params and enters _get_all (rv = []).
ListAllChannelsBody ==
    /\ pgPc = "idle"
    /\ pgPc' = "loop"
    /\ pgParams' = [types |-> "public_channel,private_channel"]
    /\ pgRv' = <<>>
    /\ UNCHANGED <<pgServed, pgLog, pgResult, pgExc>>

\* list_all_channels called by the user.
ListAllChannels ==
    /\ chPc = "idle"
    /\ ListAllChannelsBody
    /\ UNCHANGED chVars
    /\ UNCHANGED pgFrame

\* The channel_name arguments: a name is a sequence of pieces, "#" being the
\* one character str.lstrip looks at.
ChannelNames ==
    {<<"general">>, <<"#", "general">>, <<"#", "#", "random">>,
     <<"general", "#">>}

RECURSIVE Lstrip(_)
\* channel_name.lstrip("#"), line 119: every leading "#" is dropped.
Lstrip(name) ==
    IF name # <<>> /\ Head(name) = "#" THEN Lstrip(Tail(name)) ELSE name

RECURSIVE Join(_)
\* The string the pieces spell.
Join(name) == IF name = <<>> THEN "" ELSE Head(name) \o Join(Tail(name))

RECURSIVE ForChannel(_, _)
\* Lines 121-123: the for loop over the listing; falling off its end
\* returns None.
ForChannel(channels, name) ==
    IF channels = <<>> THEN ReturnNone
    ELSE IF Head(channels).name = name THEN Return(Head(channels).id)
    ELSE ForChannel(Tail(channels), name)

\* get_channel_id up to its await of list_all_channels (lines 119-121).
GetChannelId ==
    /\ chPc = "idle"
    /\ \E channel_name \in ChannelNames : chName' = channel_name
    /\ chPc' = "listing"
    /\ ListAllChannelsBody
    /\ UNCHANGED <<chResult, chExc>>
    /\ UNCHANGED pgFrame

\* get_channel_id after list_all_channels has finished: its exception
\* propagates; iterating over its None raises TypeError; over its list the
\* for loop runs.
GetChannelIdResume ==
    /\ chPc = "listing"
    /\ pgPc \in {"returned", "raised"}
    /\ IF pgPc = "raised"
       THEN /\ chPc' = "raised"
            /\ chExc' = pgExc.exc
            /\ UNCHANGED chResult
       ELSE IF pgResult.none
       THEN /\ chPc' = "raised"
            /\ chExc' = "TypeError"
            /\ UNCHANGED chResult
       ELSE /\ chPc' = "returned"
            /\ chResult' = ForChannel(pgResult.value, Join(Lstrip(chName)))
            /\ UNCHANGED chExc
    /\ UNCHANGED <<chName, pgPc, pgParams, pgRv, pgServed, pgLog, pgResult, pgExc>>
    /\ UNCHANGED pgFrame

\* One iteration of the while loop of _get_all: a _get and what follows it.
GetAllStep ==
    /\ pgPc = "loop"
    /\ Len(pgServed) < MaxPages
    /\ UNCHANGED chVars
    /\ UNCHANGED pgFrame
    /\ \E res \in HttpResponses("GET", PageOkBodies \cup SoftFailBodies \cup NoOkBodies) :
        LET out == MakeJsonRes(res, "conversations.list", pgParams)
        IN  /\ pgServed' = Append(pgServed, res)
            /\ pgLog' = pgLog \o GetEvents("conversations.list", pgParams)
            /\ IF out.kind = "raise"
               THEN /\ pgPc' = "raised"
                    /\ pgExc' = out
                    /\ UNCHANGED <<pgParams, pgRv, pgResult>>
               ELSE IF ~out.value.ok
               THEN /\ pgPc' = "returned"
                    /\ pgResult' = ReturnNone
                    /\ UNCHANGED <<pgParams, pgRv, pgExc>>
               ELSE LET rv == Extend(pgRv, out.value.channels)
                        next_cursor == NextCursor(out.value)
                    IN  /\ pgRv' = rv
                        /\ IF ~Truthy(next_cursor)
                           THEN /\ pgPc' = "returned"
                                /\ pgResult' = Return(rv)
                                /\ UNCHANGED <<pgParams, pgExc>>
                           ELSE /\ pgParams' = SetItem(pgParams, "cursor", next_cursor)
                                /\ UNCHANGED <<pgPc, pgResult, pgExc>>



(***************************************************************************)
(* Realtime Session Establisher                                            *)
(***************************************************************************)
RtmOkBodies ==
    {[ok |-> TRUE, url |-> u, self |-> [id |-> i]] :
        u \in {"wss://x", "wss://y"}, i \in {"U1", "U2"}}

\* _RealtimeApi.__init__
RealtimeApi(bot_id, ws) == [bot_id |-> bot_id, ws |-> ws]

\* _RealtimeApi.bot_mention
BotMention(session) == "<@" \o session.bot_id \o ">"

\* Line 169: the f-string reads res['error'].
RtmMessage(res) == <<"Couldn't connect to RTM api: ", res.error>>

\* A faulty branch: the retry flag is ignored.
AlwaysRetry(retry) == TRUE

\* Line 170: the branch taken after a soft failure.
ShouldRetry(retry) == retry

RtmInit ==
    /\ rtmPc = "attempt"
    /\ rtmRetry \in BOOLEAN
    /\ rtmMethod \in {"rtm.connect", "rtm.start"}
    /\ rtmRes = [ok |-> FALSE]
    /\ rtmServed = <<>>
    /\ rtmLog = <<>>
    /\ rtmExc = NoExc
    /\ rtmSession = RealtimeApi(None, None)

\* One iteration of the while loop of _make_rtm_api up to its suspension in
\* asyncio.sleep, its break or its raise.
RtmAttempt ==
    /\ rtmPc = "attempt"
    /\ Len(rtmServed) < MaxAttempts
    /\ UNCHANGED rtmFrame
    /\ \E http \in HttpResponses("GET", RtmOkBodies \cup SoftFailBodies \cup NoOkBodies) :
        LET out == MakeJsonRes(http, rtmMethod, None)
        IN  /\ rtmServed' = Append(rtmServed, http)
            /\ rtmLog' = rtmLog \o GetEvents(rtmMethod, None)
            /\ UNCHANGED <<rtmRetry, rtmMethod, rtmSession>>
            /\ IF out.kind = "raise"
               THEN /\ rtmPc' = "raised"
                    /\ rtmExc' = out
                    /\ UNCHANGED rtmRes
               ELSE /\ rtmRes' = out.value
                    /\ IF out.value.ok
                       THEN /\ rtmPc' = "upgrade"
                            /\ UNCHANGED rtmExc
                       ELSE IF "error" \notin DOMAIN out.value
                       THEN /\ rtmPc' = "raised"
                            /\ rtmExc' = [kind |-> "raise", exc |-> "KeyError"]
                       ELSE IF ShouldRetry(rtmRetry)
                       THEN /\ rtmPc' = "wait"
                            /\ UNCHANGED rtmExc
                       ELSE /\ rtmPc' = "raised"
                            /\ rtmExc' = [kind |-> "raise", exc |-> "ApiError",
                                          message |-> RtmMessage(out.value)]

\* await asyncio.sleep(5), then the loop starts over.
RtmSleep ==
    /\ rtmPc = "wait"
    /\ rtmPc' = "attempt"
    /\ rtmLog' = Append(rtmLog, [ev |-> "sleep", seconds |-> RetryDelay])
    /\ UNCHANGED <<rtmRetry, rtmMethod, rtmRes, rtmServed, rtmExc, rtmSession>>
    /\ UNCHANGED rtmFrame

\* Lines 176-178: open the websocket and wrap it.
RtmUpgrade ==
    /\ rtmPc = "upgrade"
    /\ rtmPc' = "established"
    /\ rtmLog' = Append(rtmLog, [ev |-> "ws_connect", url |-> rtmRes.url])
    /\ rtmSession' = RealtimeApi(rtmRes.self.id, rtmRes.url)
    /\ UNCHANGED <<rtmRetry, rtmMethod, rtmRes, rtmServed, rtmExc>>
    /\ UNCHANGED rtmFrame


(***************************************************************************)
(* Realtime Session                                                        *)
(*                                                                         *)
(* The websocket (aiohttp) is the environment.  While the connection is    *)
(* open it hands out the frames that arrive, one per receive; once the     *)
(* connection is closed (a close() call, a CLOSE frame of the server, or   *)
(* the failure it reports as an ERROR message) its iterator stops.         *)
(***************************************************************************)
JsonObjects ==
    {[type |-> "hello"], [type |-> "message"], [type |-> "goodbye"], [text |-> "hi"]}

Frames ==
    {[type |-> "TEXT", data |-> j] : j \in JsonObjects}
    \cup {[type |-> "BINARY"], [type |-> "ERROR"], [type |-> "CLOSE"]}

\* The tasks that call close() on the session.
Closers == {"t1", "t2"}

\* dict.get(key): None when the key is missing.
DictGet(d, k) == IF k \in DOMAIN d THEN d[k] ELSE None

\* A faulty goodbye test: no frame is taken for a goodbye.
NeverGoodbye(message_json) == FALSE

\* MsgType.GOODBYE, line 216
IsGoodbye(message_json) == DictGet(message_json, "type") = "goodbye"

\* A faulty loop body: a frame that is neither text nor error ends the loop.
DispatchBreakOnOther(msg) ==
    IF msg.type = "TEXT"
    THEN IF IsGoodbye(msg.data) THEN "close_break" ELSE "yield"
    ELSE "break"

\* A faulty loop body: the break after an error frame is missing.
DispatchContinueOnError(msg) ==
    IF msg.type = "TEXT"
    THEN IF IsGoodbye(msg.data) THEN "close_break" ELSE "yield"
    ELSE "continue"

\* The body of the async for of wait_messages, lines 214-224: what one frame
\* makes the generator do.
Dispatch(msg) ==
    IF msg.type = "TEXT"
    THEN IF IsGoodbye(msg.data) THEN "close_break" ELSE "yield"
    ELSE IF msg.type = "ERROR" THEN "break"
    ELSE "continue"

\* A faulty guard: close() never takes the session for closed.
NeverAlreadyClosed == FALSE

\* Line 228: if self._ws is None
AlreadyClosed == selfWs = None

\* A faulty close(): the underlying connection is never closed.
WsCloseOmitted == UNCHANGED <<closeAttempts, wsClosed>>

\* Line 230: self._ws.close() is invoked on the connection.
WsClose ==
    /\ closeAttempts' = closeAttempts + 1
    /\ wsClosed' = TRUE

\* got_hello, line 210: msg["type"] == MsgType.HELLO
HelloValue(msg) ==
    IF "type" \in DOMAIN msg THEN Return(msg.type = "hello")
    ELSE [returned |-> FALSE, exc |-> "KeyError"]

RtInit ==
    /\ selfWs = "ws"
    /\ wsClosed = FALSE
    /\ closeAttempts = 0
    /\ stream = <<>>
    /\ delivered = <<>>
    /\ conPc = "idle"
    /\ conMode = "none"
    /\ conEnd = "none"
    /\ conExc = "none"
    /\ helloResult = NoResult
    /\ clPc = [t \in Closers |-> "idle"]
    /\ lastClose = "none"
    /\ sent = <<>>
    /\ lastSend = "none"

\* The generator of wait_messages is exhausted (break, or the websocket's
\* iterator stopped).  Inside got_hello, __anext__ then raises
\* StopAsyncIteration; in an async for, the loop ends.
GeneratorEnds(why) ==
    /\ conPc' = "idle"
    /\ conMode' = "none"
    /\ conEnd' = why
    /\ conExc' = IF conMode = "hello" THEN "StopAsyncIteration" ELSE conExc
    /\ helloResult' = IF conMode = "hello"
                      THEN [returned |-> FALSE, exc |-> "StopAsyncIteration"]
                      ELSE helloResult

\* The consumer calls got_hello() (hello) or starts `async for ... in
\* wait_messages()` (iter): the generator starts and evaluates self._ws.
ConsumerCall(mode) ==
    /\ conPc = "idle"
    /\ UNCHANGED rtFrame
    /\ IF selfWs = None
       THEN /\ conExc' = "TypeError"
            /\ conEnd' = "raised"
            /\ helloResult' = IF mode = "hello"
                              THEN [returned |-> FALSE, exc |-> "TypeError"]
                              ELSE helloResult
            /\ UNCHANGED <<conPc, conMode>>
       ELSE /\ conPc' = "recv"
            /\ conMode' = mode
            /\ conEnd' = "running"
            /\ conExc' = "none"
            /\ helloResult' = IF mode = "hello" THEN NoResult ELSE helloResult
    /\ UNCHANGED <<selfWs, wsClosed, closeAttempts, stream, delivered,
                   clPc, lastClose>>

GotHello == ConsumerCall("hello")

WaitMessages == ConsumerCall("iter")

\* The websocket reports a failure of the connection as an ERROR message,
\* and has closed the connection by the time it hands that message out.
FailedConnection(msg) == msg.type = "ERROR"

\* The generator is resumed from `async for msg in self._ws`: the websocket
\* hands out its next message, and the loop body runs up to the next
\* suspension (the yield, the await of close(), or the next receive).
Receive ==
    /\ conPc = "recv"
    /\ UNCHANGED rtFrame
    /\ UNCHANGED <<clPc, lastClose>>
    /\ IF wsClosed
       THEN /\ GeneratorEnds("closed")
            /\ UNCHANGED <<selfWs, wsClosed, closeAttempts, stream, delivered>>
       ELSE /\ Len(stream) < MaxFrames
            /\ \E msg \in Frames :
                /\ stream' = Append(stream, msg)
                /\ IF msg.type = "CLOSE"
                   THEN /\ wsClosed' = TRUE
                        /\ GeneratorEnds("closed")
                        /\ UNCHANGED <<selfWs, closeAttempts, delivered>>
                   ELSE IF Dispatch(msg) = "yield"
                   THEN /\ delivered' = Append(delivered, Len(stream) + 1)
                        /\ IF conMode = "hello"
                           THEN /\ helloResult' = HelloValue(msg.data)
                                /\ conExc' = IF "type" \in DOMAIN msg.data
                                             THEN conExc ELSE "KeyError"
                                /\ conPc' = "idle"
                                /\ conMode' = "none"
                                /\ conEnd' = "dropped"
                           ELSE /\ conPc' = "yielded"
                                /\ UNCHANGED <<conMode, conEnd, conExc, helloResult>>
                        /\ wsClosed' = FailedConnection(msg)
                        /\ UNCHANGED <<selfWs, closeAttempts>>
                   ELSE IF Dispatch(msg) = "close_break"
                   THEN IF AlreadyClosed
                        THEN /\ GeneratorEnds("goodbye")
                             /\ wsClosed' = FailedConnection(msg)
                             /\ UNCHANGED <<selfWs, closeAttempts, delivered>>
                        ELSE /\ WsClose
                             /\ conPc' = "gbClose"
                             /\ UNCHANGED <<selfWs, delivered, conMode, conEnd,
                                            conExc, helloResult>>
                   ELSE IF Dispatch(msg) = "break"
                   THEN /\ wsClosed' = FailedConnection(msg)
                        /\ GeneratorEnds("error")
                        /\ UNCHANGED <<selfWs, closeAttempts, delivered>>
                   ELSE \* "continue": the frame is ignored
                        /\ wsClosed' = FailedConnection(msg)
                        /\ UNCHANGED <<selfWs, closeAttempts, delivered,
                                       conPc, conMode, conEnd, conExc, helloResult>>

\* close() called for a goodbye frame resumes after `await self._ws.close()`:
\* line 231, then the break of line 218.
GoodbyeCloseEnd ==
    /\ conPc = "gbClose"
    /\ UNCHANGED rtFrame
    /\ selfWs' = None
    /\ GeneratorEnds("goodbye")
    /\ UNCHANGED <<wsClosed, closeAttempts, stream, delivered,
                   clPc, lastClose>>

\* The consumer's loop asks the generator for the next event.
Resume ==
    /\ conPc = "yielded"
    /\ UNCHANGED rtFrame
    /\ conPc' = "recv"
    /\ UNCHANGED <<selfWs, wsClosed, closeAttempts, stream, delivered,
                   conMode, conEnd, conExc, helloResult,
                   clPc, lastClose>>

\* The consumer leaves its loop (break): the suspended generator is dropped.
Abandon ==
    /\ conPc = "yielded"
    /\ UNCHANGED rtFrame
    /\ conPc' = "idle"
    /\ conMode' = "none"
    /\ conEnd' = "dropped"
    /\ UNCHANGED <<selfWs, wsClosed, closeAttempts, stream, delivered,
                   conExc, helloResult, clPc, lastClose>>

\* A task calls close(): lines 228-230, up to the await.
CloseBegin(t) ==
    /\ clPc[t] = "idle"
    /\ UNCHANGED rtFrame
    /\ IF AlreadyClosed
       THEN /\ lastClose' = "noop"
            /\ UNCHANGED <<clPc, closeAttempts, wsClosed>>
       ELSE /\ WsClose
            /\ clPc' = [clPc EXCEPT ![t] = "await"]
            /\ lastClose' = "closing"
    /\ UNCHANGED <<selfWs, stream, delivered,
                   conPc, conMode, conEnd, conExc, helloResult>>

\* The await of ws.close() returns: line 231.
CloseEnd(t) ==
    /\ clPc[t] = "await"
    /\ UNCHANGED rtFrame
    /\ selfWs' = None
    /\ clPc' = [clPc EXCEPT ![t] = "idle"]
    /\ UNCHANGED <<wsClosed, closeAttempts, stream, delivered,
                   conPc, conMode, conEnd, conExc, helloResult,
                   lastClose>>

\* A faulty send: the frame goes out whatever the state of the session.
WsSendJsonAlways(ws, closed) == "sent"

\* self._ws.send_json(message), lines 236 and 247: None has no send_json
\* (AttributeError); a closed or closing websocket refuses the write; an open
\* one writes the frame to the transport at once.
WsSendJson(ws, closed) ==
    IF ws = None THEN "AttributeError"
    ELSE IF closed THEN "ConnectionResetError"
    ELSE "sent"

\* The arguments of the send calls.
ChannelIds == {"C1"}

Texts == {"hi"}

Timestamps == {"1.0"}

\* The tail of both send methods: the message is built, then handed to the
\* websocket.
SendJson(message) ==
    LET outcome == WsSendJson(selfWs, wsClosed)
    IN  /\ outcome = "sent" => Len(sent) < MaxSends
        /\ lastSend' = outcome
        /\ sent' = IF outcome = "sent" THEN Append(sent, message) ELSE sent

\* send_typing_indicator, lines 233-236
SendTypingIndicator ==
    /\ \E channel_id \in ChannelIds :
        SendJson([id |-> 1, type |-> "typing", channel |-> channel_id])
    /\ UNCHANGED sndFrame

\* reply_in_thread, lines 238-247
ReplyInThread ==
    /\ \E channel_id \in ChannelIds, message \in Texts, thread_ts \in Timestamps :
        SendJson([id |-> 2, type |-> "message", channel |-> channel_id,
                  text |-> message, thread_ts |-> thread_ts])
    /\ UNCHANGED sndFrame

(***************************************************************************)
(* Transport Client: the public methods that make one HTTP call            *)
(***************************************************************************)
\* The token AsyncApi was constructed with.
Token == "xoxb-1"

\* self._headers, lines 50-54
Headers ==
    [Authorization |-> "Bearer " \o Token,
     ContentType |-> "application/json; charset=utf-8"]

\* The JSON objects the API answers these calls with.
ApiBodies ==
    {[ok |-> TRUE, permalink |-> "https://p"], [ok |-> TRUE]}
    \cup SoftFailBodies \cup NoOkBodies

UserIds == {"U1"}

ReactionNames == {"thumbsup"}

ApiInit ==
    /\ apiLog = <<>>
    /\ apiResult = NoResult

\* _post: the trace (line 100), then the request (line 102).
PostEvents(method, payload) ==
    <<[ev |-> "print", text |-> <<"Posting to", method, payload>>],
      [ev |-> "request", verb |-> "POST",
       url |-> SLACK_API_URL \o "/" \o method,
       headers |-> Headers, json |-> payload]>>

\* revoke_token, lines 148-151: the request, with no trace before it.
RevokeEvents(method) ==
    <<[ev |-> "request", verb |-> "POST",
       url |-> SLACK_API_URL \o "/" \o method, data |-> [token |-> Token]]>>

\* Line 76: the message _make_json_res prints about a soft failure.
ErrorPrints(out) ==
    IF out.kind = "return"
    THEN [i \in 1..Len(out.printed) |-> [ev |-> "print", text |-> out.printed[i]]]
    ELSE <<>>

\* What the caller of _get / _post gets back.
Outcome(out) ==
    IF out.kind = "raise" THEN [returned |-> FALSE, exc |-> out.exc]
    ELSE Return(out.value)

\* Line 112: res["permalink"] if res["ok"] else None
Permalink(out) ==
    IF out.kind = "raise" THEN Outcome(out)
    ELSE IF ~out.value.ok THEN ReturnNone
    ELSE IF "permalink" \in DOMAIN out.value THEN Return(out.value.permalink)
    ELSE [returned |-> FALSE, exc |-> "KeyError"]

\* The requests these methods have put on the wire.
IssuedCalls == Cardinality({i \in DOMAIN apiLog : apiLog[i].ev = "request"})

\* _post(method, payload) as the whole of a public method.
Post(method, payload) ==
    /\ IssuedCalls < MaxCalls
    /\ \E res \in HttpResponses("POST", ApiBodies) :
        LET out == MakeJsonRes(res, method, payload)
        IN  /\ apiLog' = apiLog \o PostEvents(method, payload) \o ErrorPrints(out)
            /\ apiResult' = Outcome(out)

\* _get(method, params) as the whole of a public method.
Get(method, params) ==
    /\ IssuedCalls < MaxCalls
    /\ \E res \in HttpResponses("GET", ApiBodies) :
        LET out == MakeJsonRes(res, method, params)
        IN  /\ apiLog' = apiLog \o GetEvents(method, params) \o ErrorPrints(out)
            /\ apiResult' = Outcome(out)

AddReaction ==
    /\ \E channel \in ChannelIds, ts \in Timestamps, reaction_name \in ReactionNames :
        Post("reactions.add",
             [channel |-> channel, timestamp |-> ts, name |-> reaction_name])
    /\ UNCHANGED apiFrame

GetPermalink ==
    /\ IssuedCalls < MaxCalls
    /\ \E channel_id \in ChannelIds, ts \in Timestamps,
          res \in HttpResponses("GET", ApiBodies) :
        LET payload == [channel |-> channel_id, message_ts |-> ts]
            out == MakeJsonRes(res, "chat.getPermalink", payload)
        IN  /\ apiLog' = apiLog \o GetEvents("chat.getPermalink", payload)
                                \o ErrorPrints(out)
            /\ apiResult' = Permalink(out)
    /\ UNCHANGED apiFrame

PostMessage ==
    /\ \E channel_id \in ChannelIds, text \in Texts, thread_ts \in Timestamps \cup {None} :
        Post("chat.postMessage",
             [channel |-> channel_id, text |-> text, attachments |-> <<>>,
              as_user |-> TRUE, thread_ts |-> thread_ts])
    /\ UNCHANGED apiFrame

DeleteMessage ==
    /\ \E channel_id \in ChannelIds, ts \in Timestamps :
        Post("chat.delete", [channel |-> channel_id, ts |-> ts])
    /\ UNCHANGED apiFrame

UserInfo ==
    /\ \E user_id \in UserIds : Get("users.info", [user |-> user_id])
    /\ UNCHANGED apiFrame

ChannelInfo ==
    /\ \E channel_id \in ChannelIds : Get("channels.info", [channel |-> channel_id])
    /\ UNCHANGED apiFrame

\* revoke_token.  The body is passed to session.post positionally: a session
\* whose post takes it sends the request, one whose post takes the body by
\* keyword only raises TypeError before anything is sent.
RevokeToken ==
    /\ IssuedCalls < MaxCalls
    /\ \/ \E res \in HttpResponses("POST", ApiBodies) :
            LET out == MakeJsonRes(res, "auth.revoke", [token |-> "XXXXXXXXXX"])
            IN  /\ apiLog' = apiLog \o RevokeEvents("auth.revoke") \o ErrorPrints(out)
                /\ apiResult' = Outcome(out)
       \/ /\ apiResult' = [returned |-> FALSE, exc |-> "TypeError"]
          /\ UNCHANGED apiLog
    /\ UNCHANGED apiFrame

(***************************************************************************)
(* escape                                                                  *)
(***************************************************************************)
\* The characters of the texts: the three special ones and a plain one.
Alphabet == {"<", ">", "&", "a"}

\* "<a & b>"
Example == <<"<", "a", " ", "&", " ", "b", ">">>

\* The texts escape is called with.
EscapeInputs == UNION {[1..n -> Alphabet] : n \in 0..MaxText} \cup {Example}

RECURSIVE Replace(_, _, _)
\* str.replace(old, new) for a one-character old: every occurrence, left to
\* right.
Replace(text, old, new) ==
    IF text = <<>> THEN <<>>
    ELSE (IF Head(text) = old THEN new ELSE <<Head(text)>>)
         \o Replace(Tail(text), old, new)

\* escape, lines 26-29: "<", then ">", then "&".
Escape(text) ==
    LET rv1 == Replace(text, "<", <<"&", "l", "t", ";">>)
        rv2 == Replace(rv1, ">", <<"&", "g", "t", ";">>)
        rv3 == Replace(rv2, "&", <<"&", "a", "m", "p", ";">>)
    IN  rv3

EscInit ==
    /\ escText \in EscapeInputs
    /\ escRv = NoResult

\* One call of escape(text).
EscapeCall ==
    /\ escRv = NoResult
    /\ escRv' = Return(Escape(escText))
    /\ UNCHANGED escText
    /\ UNCHANGED escFrame

(***************************************************************************)
(* Specifications                                                          *)
(***************************************************************************)
\* The components a specification does not run stay as constructed.
PgIdle == PgInit

ApiIdle == ApiInit

EscIdle == EscInit /\ escText = <<>>

RtmIdle == RtmInit /\ rtmRetry = FALSE /\ rtmMethod = "rtm.connect"

RtIdle == RtInit

PageInit == PgInit /\ RtmIdle /\ RtIdle /\ ApiIdle /\ EscIdle

PageNext == ListAllChannels \/ GetChannelId \/ GetAllStep \/ GetChannelIdResume

SpecPage == PageInit /\ [][PageNext]_vars

EstablisherInit == RtmInit /\ PgIdle /\ RtIdle /\ ApiIdle /\ EscIdle

EstablisherNext == RtmAttempt \/ RtmSleep \/ RtmUpgrade

SpecRtm == EstablisherInit /\ [][EstablisherNext]_vars

SessionInit == RtInit /\ PgIdle /\ RtmIdle /\ ApiIdle /\ EscIdle

SessionNext ==
    \/ GotHello
    \/ WaitMessages
    \/ Receive
    \/ GoodbyeCloseEnd
    \/ Resume
    \/ Abandon
    \/ \E t \in Closers : CloseBegin(t)
    \/ \E t \in Closers : CloseEnd(t)

SpecSession == SessionInit /\ [][SessionNext]_vars

ClientInit == ApiInit /\ PgIdle /\ RtmIdle /\ RtIdle /\ EscIdle

EscapeInit == EscInit /\ PgIdle /\ RtmIdle /\ RtIdle /\ ApiIdle

EscapeNext == EscapeCall

SpecEscape == EscapeInit /\ [][EscapeNext]_vars

ClientNext ==
    \/ AddReaction
    \/ GetPermalink
    \/ PostMessage
    \/ DeleteMessage
    \/ UserInfo
    \/ RevokeToken
    \/ ChannelInfo

SpecClient == ClientInit /\ [][ClientNext]_vars

\* The session with one task that closes it and tasks that send on it.
DuplexNext ==
    \/ GotHello
    \/ WaitMessages
    \/ Receive
    \/ GoodbyeCloseEnd
    \/ Resume
    \/ Abandon
    \/ CloseBegin("t1")
    \/ CloseEnd("t1")
    \/ SendTypingIndicator
    \/ ReplyInThread

SpecDuplex == SessionInit /\ [][DuplexNext]_vars

\* The event loop resumes a task whose awaited I/O has completed.
FairSession ==
    /\ SessionInit
    /\ [][SessionNext]_vars
    /\ WF_vars(Receive)
    /\ WF_vars(GoodbyeCloseEnd)
    /\ WF_vars(\E t \in Closers : CloseEnd(t))

(***************************************************************************)
(* Properties: Paginator and Transport Client (SpecPage)                   *)
(***************************************************************************)
Last(s) == s[Len(s)]

\* A response the Transport Client accepts: 2xx/3xx, JSON, with an "ok" key.
WellFormed(res) ==
    /\ res.parsable
    /\ res.status \in 200..399
    /\ "ok" \in DOMAIN res.json

\* The cursor a page carries, read off the response: "" when there is none.
CursorOf(res) ==
    IF "response_metadata" \in DOMAIN res.json
    THEN res.json.response_metadata.next_cursor
    ELSE ""

\* N >= 1 pages, all ok, a non-empty cursor on each but the last, which has
\* no cursor.
WellPaged(served) ==
    /\ Len(served) >= 1
    /\ \A i \in 1..Len(served) :
        /\ WellFormed(served[i])
        /\ served[i].json.ok
        /\ i < Len(served) => CursorOf(served[i]) # ""
    /\ "response_metadata" \notin DOMAIN Last(served).json

RECURSIVE ConcatChannels(_)
\* The channels of the pages, page after page.
ConcatChannels(served) ==
    IF served = <<>> THEN <<>>
    ELSE ConcatChannels(SubSeq(served, 1, Len(served) - 1)) \o Last(served).json.channels

\* C1: when the server serves N >= 1 well-formed ok pages, each but the last
\* with a non-empty next_cursor and the last without one, _get_all returns
\* exactly the concatenation of the pages' items in page order.
C1_GetAllConcatenatesPages ==
    WellPaged(pgServed) =>
        /\ pgPc = "returned"
        /\ pgResult = Return(ConcatChannels(pgServed))

\* A three-page run whose pages all carry items has returned.
C1_Witness ==
    /\ WellPaged(pgServed)
    /\ Len(pgServed) = 3
    /\ \A i \in 1..3 : pgServed[i].json.channels # <<>>
    /\ pgPc = "returned"
    /\ Len(pgResult.value) >= 4

\* C2: a response with a status outside [200,400), an unparsable body or no
\* "ok" key raises an ApiError whose message carries the status, the method
\* and the payload; a well-formed ok=false response does not raise.
C2_TransportFailureRaisesApiError ==
    pgServed # <<>> =>
        LET res == Last(pgServed)
        IN  IF ~WellFormed(res)
            THEN /\ pgPc = "raised"
                 /\ pgExc.exc = "ApiError"
                 /\ pgExc.message.status = res.status
                 /\ pgExc.message.method = "conversations.list"
                 /\ "types" \in DOMAIN pgExc.message.payload
            ELSE ~res.json.ok => (pgPc = "returned" /\ pgExc = NoExc)

(***************************************************************************)
(* Properties: Realtime Session Establisher (SpecRtm)                      *)
(***************************************************************************)
IsSoftFail(res) == WellFormed(res) /\ ~res.json.ok

IsSuccess(res) == WellFormed(res) /\ res.json.ok

CountEvents(log, ev) == Cardinality({i \in 1..Len(log) : log[i].ev = ev})

\* C3: with retry enabled and a server that answers only soft failures (with
\* or without an "error" field) and successes, the establisher never raises;
\* it sleeps once per soft failure, and on the first success connects to the
\* response's url and returns a session whose bot_mention is "<@" + id + ">".
C3_RetryNeverRaises ==
    (rtmRetry /\ \A i \in 1..Len(rtmServed) : IsSoftFail(rtmServed[i]) \/ IsSuccess(rtmServed[i])) =>
        /\ rtmPc # "raised"
        /\ rtmPc \in {"attempt", "wait"} =>
              CountEvents(rtmLog, "sleep") + (IF rtmPc = "wait" THEN 1 ELSE 0) = Len(rtmServed)
        /\ rtmPc = "established" =>
              /\ Last(rtmLog) = [ev |-> "ws_connect", url |-> Last(rtmServed).json.url]
              /\ BotMention(rtmSession) = "<@" \o Last(rtmServed).json.self.id \o ">"

\* C4: with retry disabled, a soft failure carrying an error string raises an
\* ApiError whose message contains that string, after exactly one handshake
\* call, with no sleep and no websocket connection.
C4_NoRetryRaisesWithError ==
    (~rtmRetry /\ rtmServed # <<>> /\ IsSoftFail(rtmServed[1])
        /\ "error" \in DOMAIN rtmServed[1].json) =>
        /\ rtmPc = "raised"
        /\ rtmExc.exc = "ApiError"
        /\ rtmServed[1].json.error \in Range(rtmExc.message)
        /\ Len(rtmServed) = 1
        /\ CountEvents(rtmLog, "request") = 1
        /\ CountEvents(rtmLog, "sleep") = 0
        /\ CountEvents(rtmLog, "ws_connect") = 0
        /\ rtmSession = RealtimeApi(None, None)

\* rtm_start without retry has failed on {"ok": false, "error": "invalid_auth"}.
C4_Witness ==
    /\ ~rtmRetry
    /\ rtmMethod = "rtm.start"
    /\ rtmPc = "raised"
    /\ Len(rtmServed) = 1
    /\ IsSoftFail(rtmServed[1])
    /\ rtmExc.exc = "ApiError"
    /\ "invalid_auth" \in Range(rtmExc.message)

(***************************************************************************)
(* Properties: Realtime Session (SpecSession, FairSession)                 *)
(***************************************************************************)
\* Read off the network frame itself, not through the code's tests.
IsGoodbyeFrame(f) ==
    f.type = "TEXT" /\ "type" \in DOMAIN f.data /\ f.data.type = "goodbye"

IsEventFrame(f) == f.type = "TEXT" /\ ~IsGoodbyeFrame(f)

IsEventAt(i) == IsEventFrame(stream[i])

DeliveredFrames == {delivered[k] : k \in 1..Len(delivered)}

\* C5: wait_messages never yields a goodbye frame; the first goodbye text
\* frame closes the connection, nothing that follows it in the stream is
\* read or yielded, and the generator does not go on.
C5_GoodbyeNeverYielded ==
    /\ \A i \in DeliveredFrames : ~IsGoodbyeFrame(stream[i])
    /\ \A i \in 1..Len(stream) :
        IsGoodbyeFrame(stream[i]) =>
            /\ wsClosed
            /\ closeAttempts >= 1
            /\ Len(stream) = i
            /\ \A j \in DeliveredFrames : j < i
            /\ conPc \in {"gbClose", "idle"}
            /\ conPc = "idle" => (selfWs = None /\ conEnd \in {"goodbye", "raised"})

\* An event, a skipped frame, then a goodbye: the generator has ended.
C5_Witness ==
    /\ Len(stream) = 3
    /\ IsGoodbyeFrame(stream[3])
    /\ delivered = <<1>>
    /\ conPc = "idle"
    /\ conEnd = "goodbye"
    /\ closeAttempts = 1

\* C6: once a close() has completed (self._ws is None), a further close()
\* reaches the connection no more, does not suspend, and changes nothing of
\* the session.
C6_SecondCloseIsNoOp ==
    [][selfWs = None =>
          /\ closeAttempts' = closeAttempts
          /\ wsClosed' = wsClosed
          /\ selfWs' = selfWs
          /\ \A t \in Closers : clPc[t] = "idle" => clPc'[t] = "idle"]_vars

\* A close() call found the session closed, after exactly one close attempt.
C6_Witness ==
    /\ lastClose = "noop"
    /\ selfWs = None
    /\ closeAttempts = 1
    /\ \A t \in Closers : clPc[t] = "idle"

\* C7: under any interleaving of close() calls and of the close triggered by
\* a goodbye frame, at most one close attempt reaches the connection.
C7_ClosedExactlyOnce == closeAttempts <= 1

\* The consumer is suspended in the receive of an async for over
\* wait_messages and a task has called close() on the open session.
ClosedUnderConsumer ==
    /\ conPc = "recv"
    /\ conMode = "iter"
    /\ lastClose = "closing"

\* C8: when a task closes the session while the consumer waits for the next
\* frame, the consumer's iteration eventually ends as a normal end of
\* sequence; until then no frame is yielded and nothing is raised.
C8_CloseEndsIteration ==
    /\ ClosedUnderConsumer ~> (conPc = "idle" /\ conEnd = "closed")
    /\ [][ClosedUnderConsumer =>
            /\ delivered' = delivered
            /\ stream' = stream
            /\ conExc' = "none"
            /\ conPc' \in {"recv", "idle"}]_vars

\* The iteration ended on the close of another task, after one event.
C8_Witness ==
    /\ conPc = "idle"
    /\ conEnd = "closed"
    /\ conExc = "none"
    /\ lastClose = "closing"
    /\ delivered = <<1>>
    /\ Len(stream) = 1
    /\ IsEventFrame(stream[1])

\* C9: what wait_messages has yielded, over all calls on the session, is
\* exactly the non-goodbye text frames the connection has handed out, in
\* arrival order; nothing is handed out past a goodbye or error frame; and a
\* frame of another kind leaves the generator running.
C9_EventsInArrivalOrder ==
    /\ delivered = SelectSeq([i \in 1..Len(stream) |-> i], IsEventAt)
    /\ \A i \in 1..Len(stream) :
        (IsGoodbyeFrame(stream[i]) \/ stream[i].type = "ERROR") => Len(stream) = i
    /\ (stream # <<>> /\ Last(stream).type = "BINARY" /\ ~wsClosed) => conPc = "recv"

\* got_hello took the hello, a later async for skipped a binary frame and
\* yielded the message behind it.
C9_Witness ==
    /\ Len(stream) = 3
    /\ stream[1] = [type |-> "TEXT", data |-> [type |-> "hello"]]
    /\ stream[2].type = "BINARY"
    /\ stream[3] = [type |-> "TEXT", data |-> [type |-> "message"]]
    /\ helloResult = Return(TRUE)
    /\ conMode = "iter"
    /\ conPc = "yielded"
    /\ delivered = <<1, 3>>

\* The connection hands an error frame to the generator in this step.
ErrorArrives ==
    /\ conPc = "recv"
    /\ Len(stream') = Len(stream) + 1
    /\ Last(stream').type = "ERROR"

\* C10: an error frame ends the generator of wait_messages without an
\* exception and without a yield, and no frame behind it is ever yielded.
C10_ErrorEndsSequence ==
    /\ [][ErrorArrives =>
            /\ conPc' = "idle"
            /\ conEnd' = "error"
            /\ delivered' = delivered
            /\ conMode = "iter" => conExc' = "none"]_vars
    /\ [](\A i \in 1..Len(stream) :
            stream[i].type = "ERROR" =>
                /\ Len(stream) = i
                /\ \A j \in DeliveredFrames : j < i
                /\ conPc # "yielded")

\* An event, then an error frame: the loop of the async for ended.
C10_Witness ==
    /\ Len(stream) = 2
    /\ stream[2].type = "ERROR"
    /\ delivered = <<1>>
    /\ conPc = "idle"
    /\ conEnd = "error"
    /\ conExc = "none"

\* The type tag of a frame is "hello"; a frame without a tag has none.
TagIsHello(f) == "type" \in DOMAIN f.data /\ f.data.type = "hello"

\* C11: got_hello takes exactly one event frame off the connection and
\* returns whether its type is "hello": false for every other event frame,
\* also for one that has no type field.
C11_GotHelloReportsHello ==
    [][(conMode = "hello" /\ Len(delivered') = Len(delivered) + 1) =>
            /\ conPc' = "idle"
            /\ Len(stream') = Len(stream) + 1
            /\ helloResult' = Return(TagIsHello(Last(stream')))]_vars

\* C12: no read operation raises because of a goodbye frame, an ended stream
\* or a closed session: got_hello does not raise StopAsyncIteration and
\* wait_messages on a closed session does not raise TypeError.
C12_ReadsNeverRaise == conExc \notin {"StopAsyncIteration", "TypeError"}

(***************************************************************************)
(* Properties: pagination requests and failures                            *)
(***************************************************************************)
\* The params of the k-th request of the pagination run.
RequestParams(k) == pgLog[2 * k].params

\* C14: the k-th call of _get_all (k >= 2) carries as "cursor" the cursor of
\* page k-1, unmodified, and every other parameter as in the first call.
C14_CursorCarriedForward ==
    \A k \in 1..(Len(pgLog) \div 2) :
        /\ pgLog[2 * k].ev = "request"
        /\ IF k = 1
           THEN RequestParams(k) = [types |-> "public_channel,private_channel"]
           ELSE /\ DOMAIN RequestParams(k) = {"types", "cursor"}
                /\ RequestParams(k).cursor = CursorOf(pgServed[k - 1])
                /\ RequestParams(k).types = RequestParams(1).types

\* Three calls were made: the second with cursor "c1", the third with "c2".
C14_Witness ==
    /\ Len(pgLog) = 6
    /\ CursorOf(pgServed[1]) = "c1"
    /\ CursorOf(pgServed[2]) = "c2"
    /\ RequestParams(3).cursor = "c2"

\* C16: a soft-failed page, the first or a later one, stops the pagination at
\* once: no further call is made and the run returns no items (None), the
\* items of earlier pages being discarded.
C16_SoftFailStopsPagination ==
    \A i \in 1..Len(pgServed) :
        IsSoftFail(pgServed[i]) =>
            /\ i = Len(pgServed)
            /\ pgPc = "returned"
            /\ pgResult = [returned |-> TRUE, none |-> TRUE]
            /\ CountEvents(pgLog, "request") = i

\* The third page soft-failed after two pages with items: None is returned.
C16_Witness ==
    /\ Len(pgServed) = 3
    /\ IsSoftFail(pgServed[3])
    /\ Len(pgRv) >= 3
    /\ pgPc = "returned"
    /\ pgResult.none

\* C17: a transport error during rtm_connect or rtm_start propagates whatever
\* the retry setting: it is the last handshake call, no sleep follows it, and
\* no websocket connection is opened.
C17_TransportErrorPropagates ==
    \A i \in 1..Len(rtmServed) :
        ~WellFormed(rtmServed[i]) =>
            /\ i = Len(rtmServed)
            /\ rtmPc = "raised"
            /\ rtmExc.exc \in {"ApiError", "JSONDecodeError"}
            /\ Last(rtmLog).ev = "request"
            /\ CountEvents(rtmLog, "sleep") = i - 1
            /\ CountEvents(rtmLog, "ws_connect") = 0
            /\ rtmSession = RealtimeApi(None, None)

\* With retry enabled, a soft failure was slept over and the second handshake
\* call was answered with status 500: the ApiError has left rtm_connect.
C17_Witness ==
    /\ rtmRetry
    /\ rtmMethod = "rtm.connect"
    /\ Len(rtmServed) = 2
    /\ IsSoftFail(rtmServed[1])
    /\ rtmServed[2].status = 500
    /\ rtmServed[2].parsable
    /\ rtmPc = "raised"
    /\ rtmExc.exc = "ApiError"

\* A page that exhausts the pagination: soft-failed, or ok with a cursor that
\* is absent or the empty string.
EndsPagination(res) ==
    IsSoftFail(res) \/ (IsSuccess(res) /\ CursorOf(res) = "")

\* C18: _get_all returns if and only if the server has served a page that is
\* soft-failed or whose next_cursor is absent or empty; that page is the last
\* one asked for, one call was issued per page, and as long as every page
\* carries a non-empty cursor the run has not returned.
C18_ReturnsIffExhausted ==
    /\ pgPc = "returned" <=> \E i \in 1..Len(pgServed) : EndsPagination(pgServed[i])
    /\ \A i \in 1..Len(pgServed) : EndsPagination(pgServed[i]) => i = Len(pgServed)
    /\ CountEvents(pgLog, "request") = Len(pgServed)
    /\ (pgServed # <<>> /\ \A i \in 1..Len(pgServed) :
            IsSuccess(pgServed[i]) /\ CursorOf(pgServed[i]) # "") =>
          /\ pgPc = "loop"
          /\ pgResult = NoResult

\* After a page with cursor "c1", a page whose cursor is the empty string
\* ended the run with the items of both pages.
C18_Witness ==
    /\ Len(pgServed) = 2
    /\ CursorOf(pgServed[1]) = "c1"
    /\ IsSuccess(pgServed[2])
    /\ "response_metadata" \in DOMAIN pgServed[2].json
    /\ CursorOf(pgServed[2]) = ""
    /\ pgPc = "returned"
    /\ pgResult = Return(ConcatChannels(pgServed))

(***************************************************************************)
(* Properties: get_channel_id                                              *)
(***************************************************************************)
\* Indices, in listing order, of the served channels that bear the name.
Matches(channels, name) == {i \in 1..Len(channels) : channels[i].name = name}

\* C19: get_channel_id returns the id of the first listed channel whose name
\* is the given name without its leading '#' characters; it returns None,
\* and raises nothing, when no listed channel matches and when the listing
\* soft-fails on some page.
C19_GetChannelIdNeverRaises ==
    (chPc \in {"returned", "raised"} /\ pgPc = "returned") =>
        LET name == Join(Lstrip(chName))
            channels == IF pgResult.none THEN <<>> ELSE pgResult.value
            hits == Matches(channels, name)
        IN  /\ chPc = "returned"
            /\ chExc = "none"
            /\ chResult = IF hits = {}
                          THEN [returned |-> TRUE, none |-> TRUE]
                          ELSE LET first == CHOOSE i \in hits : \A j \in hits : i <= j
                               IN  [returned |-> TRUE, none |-> FALSE,
                                    value |-> channels[first].id]

(***************************************************************************)
(* Properties: outbound frames (SpecDuplex)                                *)
(***************************************************************************)
\* C20: once close() has completed (self._ws is None), whether the user
\* called it or a goodbye frame triggered it, no frame is transmitted any
\* more: every later send_typing_indicator or reply_in_thread fails.
C20_NoSendAfterClose ==
    [][selfWs = None =>
            /\ sent' = sent
            /\ lastSend' \in {lastSend, "AttributeError"}]_vars

\* A frame went out while the session was open; after a close() by a task
\* had completed, a send failed with AttributeError.
C20_Witness ==
    /\ selfWs = None
    /\ lastClose = "closing"
    /\ clPc["t1"] = "idle"
    /\ Len(sent) = 1
    /\ lastSend = "AttributeError"

(***************************************************************************)
(* Properties: tracing of the HTTP calls (SpecClient)                      *)
(***************************************************************************)
\* What a request carries: query params, a JSON body, or form data.
RequestBody(e) ==
    IF "params" \in DOMAIN e THEN e.params
    ELSE IF "json" \in DOMAIN e THEN e.json
    ELSE e.data

\* The log entry just before entry i is the trace of the request at i.
TracedAt(log, i) ==
    /\ i > 1
    /\ log[i - 1].ev = "print"
    /\ Len(log[i - 1].text) = 3
    /\ log[i].url = SLACK_API_URL \o "/" \o log[i - 1].text[2]
    /\ log[i - 1].text[3] = RequestBody(log[i])

\* C13: every HTTP request of a public method (GET, POST and token
\* revocation alike) is preceded by a trace that names its method and its
\* params or payload; no request goes out untraced.
C13_EveryRequestTraced ==
    \A i \in 1..Len(apiLog) : apiLog[i].ev = "request" => TracedAt(apiLog, i)

(***************************************************************************)
(* Properties: escape (SpecEscape)                                         *)
(***************************************************************************)
\* The escape of one character of the input.
EscapedChar(c) ==
    IF c = "<" THEN <<"&", "l", "t", ";">>
    ELSE IF c = ">" THEN <<"&", "g", "t", ";">>
    ELSE IF c = "&" THEN <<"&", "a", "m", "p", ";">>
    ELSE <<c>>

RECURSIVE EscapedOnce(_)
\* Every character of the input escaped exactly once, in place.
EscapedOnce(text) ==
    IF text = <<>> THEN <<>> ELSE EscapedChar(Head(text)) \o EscapedOnce(Tail(text))

\* "&lt;a &amp; b&gt;"
ExampleEscaped ==
    <<"&", "l", "t", ";", "a", " ", "&", "a", "m", "p", ";", " ", "b",
      "&", "g", "t", ";">>

\* C15: escape replaces each '<' of its input by "&lt;", each '>' by "&gt;"
\* and each '&' by "&amp;", every original character exactly once and the
\* others unchanged; escape("<a & b>") is "&lt;a &amp; b&gt;".
C15_EscapesEachCharacterOnce ==
    escRv.returned =>
        /\ escRv.value = EscapedOnce(escText)
        /\ escText = Example => escRv.value = ExampleEscaped

====
